---- MODULE Spec2Model ----
(***************************************************************************)
(* Model of src/llm_3.py: a Telegram bot that relays each text message of  *)
(* a user to a single-node LangGraph agent (process -> END) compiled with  *)
(* a MemorySaver checkpointer keyed by thread_id = user id.                *)
(*                                                                         *)
(* Library behaviour the code relies on:                                   *)
(*  - Application.builder().token(..).build() leaves concurrent_updates    *)
(*    off, so the update fetcher awaits each handler before it takes the   *)
(*    next update from its FIFO queue;                                     *)
(*  - agent.invoke(input, config) loads the thread's latest checkpoint,    *)
(*    folds the input into the channels with the declared reducer          *)
(*    (operator.add), saves that input checkpoint, runs the node, folds    *)
(*    the node's return value with the reducer and saves again; when the   *)
(*    node raises, the input checkpoint stays and the exception propagates;*)
(*  - context.user_data is python-telegram-bot's per-user dictionary; it   *)
(*    is not the checkpointer.                                             *)
(* Scope: the transport calls (send_chat_action, reply_text) return        *)
(* normally; the completion call (llm.invoke) returns a text or raises.    *)
(***************************************************************************)
EXTENDS Integers, Sequences, FiniteSets, TLC

\* ---------------------------------------------------------------- bounds
MaxEvents == 3

Threads == {"u1", "u2"}
Texts == {"hello", "hey"}
Replies == {"hi!"}
Errors == {"timeout"}
Commands == {"start", "clear", "help"}

VARIABLES
    accepted,    \* updates accepted from the transport, indexed by arrival
    queue,       \* ids of accepted updates not yet dispatched (update_queue)
    hs,          \* per update: position and locals of its handler
    checkpoint,  \* MemorySaver: thread_id -> latest saved messages channel
    user_data,   \* context.user_data per user
    calls,       \* log of completion calls: update, thread, context, outcome, result
    sent         \* log of outbound replies: update, recipient, text

vars == <<accepted, queue, hs, checkpoint, user_data, calls, sent>>

\* ---------------------------------------------------------------- messages
SystemText == "Eres un asistente virtual"
WelcomeText == "welcome"
HelpText == "help"
ClearedText == "Historial de conversacion limpiado"

\* langchain_core.messages; ev is the identity of the update whose
\* handling created the object (0 for the per-call system message)
SystemMessage == [role |-> "system", content |-> SystemText, ev |-> 0]
HumanMessage(c, e) == [role |-> "user", content |-> c, ev |-> e]
AIMessage(c, e) == [role |-> "assistant", content |-> c, ev |-> e]

ErrorNotice(err) == "Ocurrio un error: " \o err

\* ---------------------------------------------------------------- helpers
IsPrefix(a, b) == Len(a) <= Len(b) /\ SubSeq(b, 1, Len(a)) = a
Last(s) == s[Len(s)]
Range(s) == {s[i] : i \in 1..Len(s)}

\* ---------------------------------------------------------------- state store
\* the value a channel of AgentState starts from (Sequence -> empty list)
EmptyChannel == <<>>

\* reducer of AgentState.messages: Annotated[Sequence[BaseMessage], add]
addOverwrite(old, new) == new
addPrepend(old, new) == new \o old
add(old, new) == old \o new

\* MemorySaver lookup of a thread: its latest checkpoint, or nothing yet
GetTupleAny(cp, t) ==
    IF t \in DOMAIN cp THEN cp[t]
    ELSE IF DOMAIN cp = {} THEN EmptyChannel
    ELSE cp[CHOOSE x \in DOMAIN cp : TRUE]
GetTuple(cp, t) == IF t \in DOMAIN cp THEN cp[t] ELSE EmptyChannel

\* MemorySaver.put: the thread's latest checkpoint becomes msgs
Put(cp, t, msgs) == [x \in DOMAIN cp \cup {t} |-> IF x = t THEN msgs ELSE cp[x]]

\* the checkpoint written after the input was folded into the channels
SaveInputSkipped(cp, t, msgs) == cp
SaveInput(cp, t, msgs) == Put(cp, t, msgs)

\* config = {"configurable": {"thread_id": user_id}}
thread_idShared(u) == "u1"
thread_id(u) == u.sender

\* ---------------------------------------------------------------- graph
\* process_message: the context handed to llm.invoke
full_messagesBare(messages) == messages
full_messages(messages) == <<SystemMessage>> \o messages

\* defined in the source but never added to the graph, whose only edge is
\* process -> END
should_continue(state) == "END"

\* result["messages"][-1].content
ai_responseFirst(result) == result[1].content
ai_response(result) == Last(result).content

\* ---------------------------------------------------------------- dispatch
Running(h) == {e \in 1..Len(h) : h[e].pc \notin {"queued", "done"}}

\* Application without concurrent_updates: one handler at a time
CanDispatchConcurrent(h) == TRUE
CanDispatch(h) == Running(h) = {}

\* update_queue is FIFO
NextUpdateLast(q) == Len(q)
NextUpdate(q) == 1

\* handler locals after `except Exception as e`
OnExceptionRetry(h, err) == [h EXCEPT !.ok = FALSE]
OnExceptionSilent(h, err) == [h EXCEPT !.pc = "done", !.ok = FALSE, !.loc = <<>>]
OnException(h, err) ==
    [h EXCEPT !.pc = "reply", !.ok = FALSE, !.out = ErrorNotice(err), !.loc = <<>>]

NewHandler == [pc |-> "queued", ok |-> TRUE, out |-> "", loc |-> <<>>]

Inbound ==
    [sender : Threads, kind : {"text"}, text : Texts]
    \cup {[sender |-> s, kind |-> k, text |-> "/" \o k] : s \in Threads, k \in Commands}

\* ---------------------------------------------------------------- Init
Init ==
    /\ accepted = <<>>
    /\ queue = <<>>
    /\ hs = <<>>
    /\ checkpoint = << >>
    /\ user_data = [u \in Threads |-> {}]
    /\ calls = <<>>
    /\ sent = <<>>

\* ---------------------------------------------------------------- actions
\* run_polling: the transport hands over an update, which is queued
Accept(u) ==
    /\ Len(accepted) < MaxEvents
    /\ accepted' = Append(accepted, u)
    /\ queue' = Append(queue, Len(accepted) + 1)
    /\ hs' = Append(hs, NewHandler)
    /\ UNCHANGED <<checkpoint, user_data, calls, sent>>

\* the update fetcher takes the next update and starts its handler
Dispatch ==
    /\ queue # <<>>
    /\ CanDispatch(hs)
    /\ LET i == NextUpdate(queue)
           e == queue[i]
       IN /\ queue' = SubSeq(queue, 1, i - 1) \o SubSeq(queue, i + 1, Len(queue))
          /\ hs' = [hs EXCEPT ![e].pc = "start"]
    /\ UNCHANGED <<accepted, checkpoint, user_data, calls, sent>>

Reply(e, text) == Append(sent, [ev |-> e, to |-> accepted[e].sender, text |-> text])

start_commandResets(e) ==
    /\ hs[e].pc = "start" /\ accepted[e].kind = "start"
    /\ sent' = Reply(e, WelcomeText)
    /\ hs' = [hs EXCEPT ![e].pc = "done"]
    /\ checkpoint' = Put(checkpoint, accepted[e].sender, EmptyChannel)
    /\ UNCHANGED <<accepted, queue, user_data, calls>>

start_command(e) ==
    /\ hs[e].pc = "start" /\ accepted[e].kind = "start"
    /\ sent' = Reply(e, WelcomeText)
    /\ hs' = [hs EXCEPT ![e].pc = "done"]
    /\ UNCHANGED <<accepted, queue, checkpoint, user_data, calls>>

clear_command(e) ==
    /\ hs[e].pc = "start" /\ accepted[e].kind = "clear"
    /\ user_data' = [user_data EXCEPT ![accepted[e].sender] = {}]
    /\ sent' = Reply(e, ClearedText)
    /\ hs' = [hs EXCEPT ![e].pc = "done"]
    /\ UNCHANGED <<accepted, queue, checkpoint, calls>>

help_command(e) ==
    /\ hs[e].pc = "start" /\ accepted[e].kind = "help"
    /\ sent' = Reply(e, HelpText)
    /\ hs' = [hs EXCEPT ![e].pc = "done"]
    /\ UNCHANGED <<accepted, queue, checkpoint, user_data, calls>>

\* handle_message up to the typing indicator
SendTyping(e) ==
    /\ hs[e].pc = "start" /\ accepted[e].kind = "text"
    /\ hs' = [hs EXCEPT ![e].pc = "invoke"]
    /\ UNCHANGED <<accepted, queue, checkpoint, user_data, calls, sent>>

\* agent.invoke, graph START: load the thread, fold the input in, save
AgentInput(e) ==
    /\ hs[e].pc = "invoke"
    /\ LET t == thread_id(accepted[e])
           channel == add(GetTuple(checkpoint, t),
                          <<HumanMessage(accepted[e].text, e)>>)
       IN /\ hs' = [hs EXCEPT ![e].pc = "process", ![e].loc = channel]
          /\ checkpoint' = SaveInput(checkpoint, t, channel)
    /\ UNCHANGED <<accepted, queue, user_data, calls, sent>>

\* llm.invoke(full_messages) and what it came back with
Call(e, ok, ret) ==
    Append(calls, [ev |-> e, thread |-> thread_id(accepted[e]),
                   context |-> full_messages(hs[e].loc), ok |-> ok, ret |-> ret])

\* node process: llm.invoke returns r; the reply is folded in and saved;
\* the single edge process -> END ends the run and invoke returns
ProcessOk(e, r) ==
    /\ hs[e].pc = "process"
    /\ LET t == thread_id(accepted[e])
           result == add(hs[e].loc, <<AIMessage(r, e)>>)
       IN /\ checkpoint' = Put(checkpoint, t, result)
          /\ hs' = [hs EXCEPT ![e].pc = "reply", ![e].ok = TRUE,
                              ![e].out = ai_response(result), ![e].loc = <<>>]
    /\ calls' = Call(e, TRUE, r)
    /\ UNCHANGED <<accepted, queue, user_data, sent>>

\* node process: llm.invoke raises; invoke raises; handle_message catches
ProcessFail(e, err) ==
    /\ hs[e].pc = "process"
    /\ hs' = [hs EXCEPT ![e] = OnException(hs[e], err)]
    /\ calls' = Call(e, FALSE, err)
    /\ UNCHANGED <<accepted, queue, checkpoint, user_data, sent>>

\* update.message.reply_text(ai_response) or reply_text(error_message)
SendReply(e) ==
    /\ hs[e].pc = "reply"
    /\ sent' = Reply(e, hs[e].out)
    /\ hs' = [hs EXCEPT ![e].pc = "done"]
    /\ UNCHANGED <<accepted, queue, checkpoint, user_data, calls>>

Next ==
    \/ \E u \in Inbound : Accept(u)
    \/ Dispatch
    \/ \E e \in 1..Len(accepted) : start_command(e)
    \/ \E e \in 1..Len(accepted) : clear_command(e)
    \/ \E e \in 1..Len(accepted) : help_command(e)
    \/ \E e \in 1..Len(accepted) : SendTyping(e)
    \/ \E e \in 1..Len(accepted) : AgentInput(e)
    \/ \E e \in 1..Len(accepted), r \in Replies : ProcessOk(e, r)
    \/ \E e \in 1..Len(accepted), err \in Errors : ProcessFail(e, err)
    \/ \E e \in 1..Len(accepted) : SendReply(e)

Spec == Init /\ [][Next]_vars

TypeOK ==
    /\ Len(accepted) <= MaxEvents
    /\ Len(hs) = Len(accepted)
    /\ DOMAIN checkpoint \subseteq Threads
    /\ \A e \in 1..Len(hs) :
        hs[e].pc \in {"queued", "start", "invoke", "process", "reply", "done"}

\* fairness: the event loop keeps running handlers and dispatching; the
\* completion call returns; the transport is not obliged to deliver updates
Progress ==
    \/ Dispatch
    \/ \E e \in 1..Len(accepted) : start_command(e)
    \/ \E e \in 1..Len(accepted) : clear_command(e)
    \/ \E e \in 1..Len(accepted) : help_command(e)
    \/ \E e \in 1..Len(accepted) : SendTyping(e)
    \/ \E e \in 1..Len(accepted) : AgentInput(e)
    \/ \E e \in 1..Len(accepted), r \in Replies : ProcessOk(e, r)
    \/ \E e \in 1..Len(accepted), err \in Errors : ProcessFail(e, err)
    \/ \E e \in 1..Len(accepted) : SendReply(e)

FairSpec == Init /\ [][Next]_vars /\ WF_vars(Progress)

\* ---------------------------------------------------------------- vocabulary
Events == 1..Len(accepted)
SenderOf(e) == accepted[e].sender
TextEvents(t) == {e \in Events : accepted[e].kind = "text" /\ SenderOf(e) = t}
ClearEvents(t) == {e \in Events : accepted[e].kind = "clear" /\ SenderOf(e) = t}
Stored(t) == GetTuple(checkpoint, t)
\* the Turn of e is between its read of the thread and its last write
InTurn(e) == hs[e].pc = "process"
\* the completion calls made for thread t, in call order
CallsOf(t) == SelectSeq(calls, LAMBDA c : SenderOf(c.ev) = t)
CallIdx(e) == {i \in 1..Len(calls) : calls[i].ev = e}
SentIdx(e) == {i \in 1..Len(sent) : sent[i].ev = e}
Pos(t, e, role) == {i \in 1..Len(Stored(t)) : Stored(t)[i].ev = e /\ Stored(t)[i].role = role}

\* ---------------------------------------------------------------- claims

\* C1: for every thread, when N text events of the thread have been through
\* their Turn, every completion call of the thread succeeded and no clear
\* command of the thread was handled, the stored messages are exactly 2N
\* entries: the user message of the i-th event at 2i-1 and the assistant
\* reply to it at 2i.
C1_AlternatingHistory ==
    \A t \in Threads :
        LET cs == CallsOf(t) IN
        ( /\ \A e \in TextEvents(t) : ~InTurn(e)
          /\ \A i \in 1..Len(cs) : cs[i].ok
          /\ \A e \in ClearEvents(t) : hs[e].pc # "done" )
        => /\ Len(Stored(t)) = 2 * Len(cs)
           /\ \A i \in 1..Len(cs) :
                /\ Stored(t)[2 * i - 1] = HumanMessage(accepted[cs[i].ev].text, cs[i].ev)
                /\ Stored(t)[2 * i] = AIMessage(cs[i].ret, cs[i].ev)

C1_Witness ==
    \E t \in Threads :
        /\ Len(CallsOf(t)) = 2
        /\ \A i \in 1..2 : CallsOf(t)[i].ok
        /\ \A e \in TextEvents(t) : hs[e].pc = "done"
        /\ Len(Stored(t)) = 4

\* C2: once a clear command of a sender has been handled and no later text
\* event of that sender has started its Turn, the sender's stored messages
\* are empty; and the first Turn after the clear gets no pre-clear message
\* in its context.
C2_ClearEmptiesHistory ==
    \A t \in Threads : \A c \in ClearEvents(t) :
        hs[c].pc = "done" =>
            /\ (\A e \in TextEvents(t) : e > c => hs[e].pc \in {"queued", "start", "invoke"})
                    => Stored(t) = <<>>
            /\ \A i \in 1..Len(calls) :
                    (SenderOf(calls[i].ev) = t /\ calls[i].ev > c)
                        => \A m \in Range(calls[i].context) : m.ev = 0 \/ m.ev > c

\* C3: when the completion call of a Turn fails, the thread's stored
\* messages hold the user message of that Turn and no assistant message of
\* it, and the context of every later completion call on the thread holds
\* that user message.
C3_FailedTurnKeepsUserMessage ==
    \A i \in 1..Len(calls) :
        ~calls[i].ok =>
            LET e == calls[i].ev
                t == SenderOf(e)
                um == HumanMessage(accepted[e].text, e)
            IN /\ um \in Range(Stored(t))
               /\ Pos(t, e, "assistant") = {}
               /\ \A j \in (i + 1)..Len(calls) :
                    SenderOf(calls[j].ev) = t => um \in Range(calls[j].context)

C3_Witness ==
    \E i, j \in 1..Len(calls) :
        /\ i < j
        /\ ~calls[i].ok /\ calls[j].ok
        /\ SenderOf(calls[i].ev) = SenderOf(calls[j].ev)
        /\ hs[calls[j].ev].pc = "done"
        /\ Len(Stored(SenderOf(calls[i].ev))) = 3

\* a step of the handler of update e
HandlerStep(e) == hs'[e] # hs[e]

\* C4: an operation keyed by thread A (a Turn step or a clear command of
\* sender A) leaves the stored messages of every other thread unchanged,
\* and the context of a completion call of a Turn on A holds, besides the
\* system message, only messages created by events of A.
C4_OthersUntouched ==
    \A e \in Events : \A b \in Threads :
        (HandlerStep(e) /\ b # SenderOf(e))
            => GetTuple(checkpoint', b) = GetTuple(checkpoint, b)

C4_ContextOwn ==
    \A i \in 1..Len(calls) : \A m \in Range(calls[i].context) :
        m # SystemMessage => SenderOf(m.ev) = SenderOf(calls[i].ev)

C4_ThreadIsolation == [](C4_ContextOwn) /\ [][C4_OthersUntouched]_vars

C4_Witness ==
    /\ \A t \in Threads : Stored(t) # <<>>
    /\ \E i \in 1..Len(calls) : Len(calls[i].context) >= 4
    /\ \E i, j \in 1..Len(calls) : i < j /\ SenderOf(calls[i].ev) # SenderOf(calls[j].ev)

\* C5: per thread at most one Turn is in progress at any time, and when two
\* text events of one thread have both completed successfully the stored
\* messages hold the user and the assistant message of both.
C5_OneTurnPerThread ==
    \A t \in Threads :
        /\ Cardinality({e \in TextEvents(t) : InTurn(e)}) <= 1
        /\ \A e1, e2 \in TextEvents(t) :
            ( /\ e1 # e2
              /\ \E i \in CallIdx(e1) : calls[i].ok
              /\ \E i \in CallIdx(e2) : calls[i].ok )
            => \A e \in {e1, e2} :
                  Pos(t, e, "user") # {} /\ Pos(t, e, "assistant") # {}

C5_Witness ==
    \E t \in Threads : \E e1, e2 \in TextEvents(t) :
        /\ e1 # e2
        /\ hs[e1].pc = "done" /\ hs[e1].ok
        /\ hs[e2].pc = "done" /\ hs[e2].ok
        /\ \E e3 \in TextEvents(t) : InTurn(e3)

\* a step of a Turn
TurnStep == \E e \in Events : accepted[e].kind = "text" /\ HandlerStep(e)

\* C6: in every step of a Turn, successful or failed, each thread's stored
\* messages before the step are a prefix of its stored messages after it.
C6_AppendOnly ==
    [][TurnStep => \A t \in Threads : IsPrefix(Stored(t), GetTuple(checkpoint', t))]_vars

C6_Witness ==
    \E t \in Threads :
        /\ Len(Stored(t)) >= 4
        /\ \E i \in 1..Len(calls) : SenderOf(calls[i].ev) = t /\ ~calls[i].ok
        /\ \E i \in 1..Len(calls) : SenderOf(calls[i].ev) = t /\ calls[i].ok

\* C7: for text events e1, e2 of one thread with e1 accepted first, the
\* handling of e2 starts only when that of e1 is over, every stored message
\* of e1 precedes every stored message of e2, and the reply to e1 is
\* emitted before the reply to e2.
C7_AcceptanceOrder ==
    \A t \in Threads : \A e1, e2 \in TextEvents(t) :
        e1 < e2 =>
            /\ hs[e2].pc # "queued" => hs[e1].pc = "done"
            /\ \A i, j \in 1..Len(Stored(t)) :
                (Stored(t)[i].ev = e1 /\ Stored(t)[j].ev = e2) => i < j
            /\ Pos(t, e2, "user") # {} => Pos(t, e1, "user") # {}
            /\ \A i \in SentIdx(e1), j \in SentIdx(e2) : i < j
            /\ SentIdx(e2) # {} => SentIdx(e1) # {}

C7_Witness ==
    \E t \in Threads : \E e1, e2 \in TextEvents(t) :
        /\ e1 < e2
        /\ hs[e1].pc = "done" /\ hs[e2].pc = "done"
        /\ hs[e1].ok /\ hs[e2].ok
        /\ Len(sent) >= 2
        /\ Len(Stored(t)) = 4
        /\ \E e3 \in Events : e3 < e2 /\ SenderOf(e3) # t

\* C8: a failed completion call is caught: its handler goes on to send the
\* error notice to the sender and ends, the failed Turn leaves the stored
\* messages of the other threads as they were, and every accepted update,
\* whatever failed before it, is eventually handled to the end.
C8_Notice ==
    \A i \in 1..Len(calls) :
        ~calls[i].ok =>
            LET e == calls[i].ev IN
            /\ hs[e].pc \in {"reply", "done"}
            /\ hs[e].pc = "reply" => hs[e].out = ErrorNotice(calls[i].ret)
            /\ hs[e].pc = "done" =>
                /\ Cardinality(SentIdx(e)) = 1
                /\ \A k \in SentIdx(e) :
                    sent[k].to = SenderOf(e) /\ sent[k].text = ErrorNotice(calls[i].ret)

C8_Frame ==
    \A e \in Events : \A b \in Threads :
        (HandlerStep(e) /\ ~hs'[e].ok /\ b # SenderOf(e))
            => GetTuple(checkpoint', b) = GetTuple(checkpoint, b)

AllHandled == queue = <<>> /\ \A e \in Events : hs[e].pc = "done"

C8_Handled == []<>AllHandled

C8_FailureNotFatal == [](C8_Notice) /\ [][C8_Frame]_vars /\ C8_Handled

C8_Witness ==
    \E i \in 1..Len(calls) :
        /\ ~calls[i].ok
        /\ hs[calls[i].ev].pc = "done"
        /\ \E e \in Events :
            /\ e > calls[i].ev
            /\ hs[e].pc = "done" /\ hs[e].ok
            /\ accepted[e].kind = "text"
        /\ \E t \in Threads : t # SenderOf(calls[i].ev) /\ Stored(t) # <<>>

\* C9: every text event handled to the end has caused exactly one
\* completion call and exactly one outbound reply, sent to its sender; on
\* success the reply is the content of the assistant message the Turn
\* appended as the last stored entry of the thread, on failure it is the
\* error notice.  No text event ever has more than one call or reply.
C9_OneCallOneReply ==
    \A e \in Events :
        accepted[e].kind = "text" =>
            LET t == SenderOf(e) IN
            /\ Cardinality(CallIdx(e)) <= 1
            /\ Cardinality(SentIdx(e)) <= 1
            /\ (hs[e].pc = "reply" /\ hs[e].ok) =>
                /\ Stored(t) # <<>>
                /\ Last(Stored(t)) = AIMessage(hs[e].out, e)
            /\ hs[e].pc \in {"reply", "done"} => Cardinality(CallIdx(e)) = 1
            /\ hs[e].pc = "done" =>
                /\ Cardinality(SentIdx(e)) = 1
                /\ \A k \in SentIdx(e), i \in CallIdx(e) :
                    /\ sent[k].to = SenderOf(e)
                    /\ calls[i].ok =>
                        /\ sent[k].text = calls[i].ret
                        /\ \E p \in Pos(t, e, "assistant") :
                              Stored(t)[p].content = sent[k].text
                    /\ ~calls[i].ok => sent[k].text = ErrorNotice(calls[i].ret)

C9_Witness ==
    \E e1, e2 \in Events :
        /\ accepted[e1].kind = "text" /\ accepted[e2].kind = "text"
        /\ hs[e1].pc = "done" /\ hs[e1].ok
        /\ hs[e2].pc = "done" /\ ~hs[e2].ok
        /\ Len(calls) = 2 /\ Len(sent) >= 2

\* the threads some Turn has written a checkpoint for
Seen == {SenderOf(e) : e \in {x \in Events : accepted[x].kind = "text"
                                             /\ hs[x].pc \in {"process", "reply", "done"}}}

\* C10: only threads a Turn has run for have a stored state; the lookup of
\* a thread never seen yields the empty message sequence; and the first
\* Turn of a thread runs on a history holding only its own user message.
C10_FirstContact ==
    /\ DOMAIN checkpoint \subseteq Seen
    /\ \A t \in Threads \ Seen : Stored(t) = <<>>
    /\ \A i \in 1..Len(calls) :
        (\A j \in 1..(i - 1) : SenderOf(calls[j].ev) # SenderOf(calls[i].ev))
            => calls[i].context =
                  <<SystemMessage, HumanMessage(accepted[calls[i].ev].text, calls[i].ev)>>
    /\ \A e \in Events :
        (InTurn(e) /\ \A i \in 1..Len(calls) : SenderOf(calls[i].ev) # SenderOf(e))
            => /\ hs[e].loc = <<HumanMessage(accepted[e].text, e)>>
               /\ Stored(SenderOf(e)) = hs[e].loc

C10_Witness ==
    \E e \in Events :
        /\ InTurn(e)
        /\ \A i \in 1..Len(calls) : SenderOf(calls[i].ev) # SenderOf(e)
        /\ \E c \in ClearEvents(SenderOf(e)) : hs[c].pc = "done"
        /\ \E t \in Threads : t # SenderOf(e) /\ Len(Stored(t)) = 2

\* the informational commands accepted so far
InfoEvents == {e \in Events : accepted[e].kind \in {"start", "help"}}

\* C11: the handlers of start and help leave the stored messages of every
\* thread unchanged and make no completion call, and once such a handler
\* is over it has emitted exactly one reply, the informational text of its
\* command, to the sender.
C11_InfoFrame ==
    \A e \in InfoEvents :
        HandlerStep(e) => checkpoint' = checkpoint /\ calls' = calls

C11_InfoReply ==
    \A e \in InfoEvents :
        /\ CallIdx(e) = {}
        /\ Cardinality(SentIdx(e)) <= 1
        /\ hs[e].pc = "done" =>
            /\ Cardinality(SentIdx(e)) = 1
            /\ \A k \in SentIdx(e) :
                /\ sent[k].to = SenderOf(e)
                /\ sent[k].text =
                      IF accepted[e].kind = "start" THEN WelcomeText ELSE HelpText

C11_InfoCommands == [](C11_InfoReply) /\ [][C11_InfoFrame]_vars

C11_Witness ==
    \E e1, e2 \in InfoEvents :
        /\ accepted[e1].kind = "start" /\ accepted[e2].kind = "help"
        /\ hs[e1].pc = "done" /\ hs[e2].pc = "done"
        /\ \E t \in Threads : Len(Stored(t)) = 2 /\ t = SenderOf(e1)
        /\ \E i \in 1..Len(calls) : calls[i].ev < e1

\* the step in which a completion call is made and comes back
CallStep == Len(calls') = Len(calls) + 1

\* C12: the context of every completion call is the system message followed
\* by the thread's full stored messages at the time of the call, the last of
\* which is the user message of the event being handled; and no thread's
\* stored messages ever holds a system-role entry.
C12_Context ==
    CallStep =>
        LET c == calls'[Len(calls')]
            t == SenderOf(c.ev)
        IN /\ c.context = <<SystemMessage>> \o Stored(t)
           /\ Stored(t) # <<>>
           /\ Last(Stored(t)) = HumanMessage(accepted[c.ev].text, c.ev)
           /\ \A k \in 2..Len(c.context) : c.context[k].role # "system"

C12_NoSystemStored ==
    \A t \in Threads : \A m \in Range(Stored(t)) : m.role # "system"

C12_SystemPerCall == [](C12_NoSystemStored) /\ [][C12_Context]_vars

C12_Witness ==
    \E i \in 1..Len(calls) :
        /\ Len(calls[i].context) = 4
        /\ calls[i].context[1] = SystemMessage
        /\ calls[i].context[3].role = "assistant"
        /\ Len(Stored(SenderOf(calls[i].ev))) = 4

\* where the graph run of a handler is: not entered, START (invoke called),
\* PROCESSING (node process running, completion call out), END
GraphStateOf(h) ==
    CASE h.pc = "invoke" -> "START"
      [] h.pc = "process" -> "PROCESSING"
      [] h.pc \in {"reply", "done"} -> "END"
      [] OTHER -> "none"

GraphMoves ==
    {<<"none", "none">>, <<"none", "START">>, <<"START", "PROCESSING">>,
     <<"PROCESSING", "END">>, <<"END", "END">>}

\* C13: the graph run of every Turn goes START -> PROCESSING -> END, with no
\* other state and no step back, a failed completion call ends in END like
\* a successful one, and, the completion call returning, every started Turn
\* reaches END.
C13_Order ==
    \A e \in Events :
        (accepted[e].kind = "text" /\ HandlerStep(e))
            => <<GraphStateOf(hs[e]), GraphStateOf(hs'[e])>> \in GraphMoves

C13_NoTurnOpen ==
    \A e \in Events : GraphStateOf(hs[e]) \notin {"START", "PROCESSING"}

C13_TurnReachesEnd == [][C13_Order]_vars /\ []<>C13_NoTurnOpen

C13_Witness ==
    \E e1, e2, e3 \in Events :
        /\ GraphStateOf(hs[e1]) = "END" /\ ~hs[e1].ok /\ CallIdx(e1) # {}
        /\ GraphStateOf(hs[e2]) = "END" /\ hs[e2].ok /\ CallIdx(e2) # {}
        /\ GraphStateOf(hs[e3]) = "PROCESSING"

CountRole(msgs, role) == Cardinality({i \in 1..Len(msgs) : msgs[i].role = role})

\* C14: whatever text events, clear commands and completion failures have
\* happened, in every thread's stored messages each assistant message comes
\* right after a user message: a non-empty history starts with a user
\* message, no two assistant messages are adjacent, and there are at most
\* as many assistant messages as user messages.
C14_AssistantFollowsUser ==
    \A t \in Threads :
        LET msgs == Stored(t) IN
        /\ \A i \in 1..Len(msgs) :
            msgs[i].role = "assistant" => (i > 1 /\ msgs[i - 1].role = "user")
        /\ msgs # <<>> => msgs[1].role = "user"
        /\ \A i \in 1..(Len(msgs) - 1) :
            ~(msgs[i].role = "assistant" /\ msgs[i + 1].role = "assistant")
        /\ CountRole(msgs, "assistant") <= CountRole(msgs, "user")

C14_Witness ==
    \E t \in Threads :
        /\ Len(Stored(t)) = 3
        /\ Stored(t)[1].role = "user" /\ Stored(t)[2].role = "user"
        /\ Stored(t)[3].role = "assistant"
        /\ \E c \in ClearEvents(t) : hs[c].pc = "done"
====
